---- MODULE Spec2Model ----
(***************************************************************************)
(* Model of the asynchronous read-dispatch engine of src/Socket.c:         *)
(* the registration list asyncSocketList, the background worker            *)
(* SAL_Socket_CallbackWorker_Run and the calls SAL_Socket_SetReadCallback, *)
(* SAL_Socket_UnsetSocketCallback and SAL_Socket_ClearCallbacks.           *)
(*                                                                         *)
(* Application threads and workers take one step per access to shared      *)
(* memory (one list operation, one read or write of a global or of a       *)
(* socket field), so that every interleaving the C code allows is a        *)
(* behaviour of the model.  The build modelled is the WINDOWS one (the     *)
(* POSIX body of the worker is empty) with assertions enabled.             *)
(***************************************************************************)
EXTENDS Integers, Sequences, FiniteSets, TLC

\* ------------------------------------------------------------------ bounds
NSockets == 3             \* sockets the application owns
NThreads == 2             \* application threads of the multi-threaded specification
MaxWorkers == 2           \* worker threads that can exist at once
MaxPending == 1           \* bytes a peer can have outstanding on one socket
ShutdownsCounted == 1     \* calls of SAL_Socket_ClearCallbacks counted (then "or more")
MaxCalls == 3             \* calls in one behaviour of the multi-threaded specification
FD_SETSIZE == 2           \* stands for the 1024 of line 18, scaled to the model
CALLBACK_BUFFER_SIZE == 1 \* stands for the 1024 of line 14, scaled to the model

NULL == "NULL"
\* the value of a RawSocket field whose handle was released (lines 372, 376)
INVALID_SOCKET == -1
Sockets == 1..NSockets
Threads == 1..NThreads
Workers == 1..MaxWorkers
Callbacks == {"C1", "C2"}
CallbackStates == {"S1", "S2"}
\* (callback, state) pairs the application registers, and the absent arguments
ValidArgs == {<<"C1", "S1">>, <<"C2", "S2">>}
InvalidArgs == {<<NULL, "S1">>, <<"C1", NULL>>}

VARIABLES
    asyncWorkerRunning,   \* line 42
    asyncWorker,          \* line 41: handle of the last created worker, 0 = none
    asyncSocketList,      \* line 40: the entries of the list, in order
    listState,            \* "none" (static storage), "live", "released"
    ReadCallback,         \* SAL_Socket.ReadCallback, per socket
    ReadCallbackState,    \* SAL_Socket.ReadCallbackState, per socket
    pending,              \* bytes in the socket's receive queue
    eof,                  \* the peer has closed its end
    pc,                   \* position of each application thread
    arg,                  \* arguments of the call an application thread is in
    worker,               \* locals and position of each worker thread
    shutdowns,            \* SAL_Socket_ClearCallbacks calls begun, up to ShutdownsCounted
    calls,                \* calls begun, counted where a specification bounds them
    fault,                \* the invalid operation the last step performed, or "none"
    aborted,              \* the process was terminated (assert, invalid access)
    age,                  \* per socket: batches built since it was last in one
    Connected,            \* SAL_Socket.Connected, per socket
    RawSocket             \* SAL_Socket.RawSocket, per socket: its handle or INVALID_SOCKET

vars == <<asyncWorkerRunning, asyncWorker, asyncSocketList, listState,
          ReadCallback, ReadCallbackState, pending, eof, pc, arg, worker,
          shutdowns, calls, fault, aborted, age, Connected, RawSocket>>

\* ------------------------------------------------------------ pure helpers
Min(a, b) == IF a < b THEN a ELSE b

InList(list, s) == \E k \in 1..Len(list) : list[k] = s

Occurrences(list, s) == Cardinality({k \in 1..Len(list) : list[k] = s})

\* index of the first entry equal to s, 0 if there is none
FirstIndex(list, s) ==
    IF InList(list, s)
    THEN CHOOSE k \in 1..Len(list) : list[k] = s /\ \A j \in 1..(k-1) : list[j] # s
    ELSE 0

RemoveAt(list, k) == [j \in 1..(Len(list)-1) |-> IF j < k THEN list[j] ELSE list[j+1]]

\* AsyncLinkedList_Append: a new entry at the tail
AsyncLinkedList_Append(list, s) == Append(list, s)

\* AsyncLinkedList_Remove: the first entry equal to s leaves the list
AsyncLinkedList_Remove(list, s) ==
    IF FirstIndex(list, s) = 0 THEN list ELSE RemoveAt(list, FirstIndex(list, s))

\* a removal that leaves every iterator where it was: an iterator that had
\* passed the removed entry then stands one entry further than before
IteratorStaysAfterRemove(it, k) == it

\* An iterator is the number of entries it has passed.  When the entry at
\* index k is removed, an iterator that has passed it moves back by one, so
\* that the entry following the removed one is the next it yields.
IteratorAfterRemove(it, k) == IF k # 0 /\ it >= k THEN it - 1 ELSE it

\* a socket select() reports readable: data is queued or the peer has closed
Readable(s) == pending[s] > 0 \/ eof[s]

\* a value of a RawSocket field that names a handle the application has not released
HandleOpen(h) == h \in Sockets /\ RawSocket[h] = h

\* recv() on a blocking socket returns once the socket is readable, and at
\* once with an error on INVALID_SOCKET
RecvReturns(s) == Readable(s) \/ RawSocket[s] = INVALID_SOCKET

\* recv() as called by SAL_Socket_Read, and SAL_Socket_Read's result
Recv(s, bufferSize) ==
    IF RawSocket[s] = INVALID_SOCKET THEN -1
    ELSE IF pending[s] > 0 THEN Min(pending[s], bufferSize) ELSE 0

SAL_Socket_Read(s, bufferSize) == IF Recv(s, bufferSize) <= 0 THEN 0 ELSE Recv(s, bufferSize)

\* ret is where the call of SAL_Socket_UnsetSocketCallback returns to
NoArg == [sock |-> 0, cb |-> NULL, st |-> NULL, h |-> 0, wasRunning |-> FALSE,
          ret |-> "idle"]

\* selectFailed: the select of the current cycle returned an error and no
\* entry has been picked for a read since;
\* seen: the sockets selectIterator has yielded since it was last reset
IdleWorker == [pc |-> "none", it |-> 0, i |-> 0, readSet |-> <<>>, scan |-> 0,
               socketEntry |-> 0, bytesRead |-> 0, fn |-> NULL, st |-> NULL,
               selectFailed |-> FALSE, seen |-> {}]

Alive(w) == worker[w].pc \notin {"none", "exited", "joined"}

\* ------------------------------------------------------------------- Init
Init ==
    /\ asyncWorkerRunning = FALSE
    /\ asyncWorker = 0
    /\ asyncSocketList = <<>>
    /\ listState = "none"
    /\ ReadCallback = [s \in Sockets |-> NULL]
    /\ ReadCallbackState = [s \in Sockets |-> NULL]
    /\ pending = [s \in Sockets |-> 0]
    /\ eof = [s \in Sockets |-> FALSE]
    /\ pc = [t \in Threads |-> "idle"]
    /\ arg = [t \in Threads |-> NoArg]
    /\ worker = [w \in Workers |-> IdleWorker]
    /\ shutdowns = 0
    /\ calls = 0
    /\ fault = "none"
    /\ aborted = FALSE
    /\ age = [s \in Sockets |-> 0]
    /\ Connected = [s \in Sockets |-> TRUE]
    /\ RawSocket = [s \in Sockets |-> s]


\* ------------------------------------------------- the list as a shared object
\* An operation on the list while its storage is not initialised is an
\* invalid access: it is recorded, and the process either survives it or dies.
NoFault ==
    /\ fault' = "none"
    /\ aborted' = FALSE

ListFault(kind) ==
    IF listState = "live"
    THEN NoFault
    ELSE /\ fault' = kind
         /\ aborted' \in BOOLEAN

\* removal of socket s as every live iterator sees it
WorkersAfterRemove(s) ==
    [w \in Workers |->
        [worker[w] EXCEPT
            !.it = IteratorAfterRemove(worker[w].it, FirstIndex(asyncSocketList, s)),
            !.scan = IteratorAfterRemove(worker[w].scan, FirstIndex(asyncSocketList, s)),
            !.seen = {x \in worker[w].seen :
                        InList(AsyncLinkedList_Remove(asyncSocketList, s), x)}]]

\* A change of the list's membership restarts the count of batches; a batch
\* that is being built at that moment is not counted (-1 until it is done).
ResetAge ==
    [s \in Sockets |->
        IF \E w \in Workers : worker[w].pc = "P71" /\ worker[w].i > 0
        THEN -1
        ELSE 0]

AgeCap == NSockets + 2

\* after a batch is built, while the list holds more entries than a batch:
\* the sockets in the batch are fresh, the others older by one
AgeAfterBatch(readSet) ==
    [s \in Sockets |->
        IF Len(asyncSocketList) <= FD_SETSIZE \/ InList(readSet, RawSocket[s])
           \/ ~InList(asyncSocketList, s) \/ age[s] < 0
        THEN 0
        ELSE Min(age[s] + 1, AgeCap)]

\* --------------------------------------- SAL_Socket_CallbackWorker_Run (53-98)
\* line 63: selectIterator = AsyncLinkedList_BeginIterate(&asyncSocketList)
Run_BeginIterate(w) ==
    /\ ~aborted
    /\ worker[w].pc = "P63"
    /\ worker' = [worker EXCEPT ![w].it = 0, ![w].pc = "P67"]
    /\ ListFault("list_invalid")
    /\ UNCHANGED <<asyncWorkerRunning, asyncWorker, asyncSocketList,
                   listState, ReadCallback, ReadCallbackState, pending, eof,
                   pc, arg, shutdowns, age, calls,
                   Connected, RawSocket>>

\* lines 67-68 (and the sleep of line 89 that precedes the test):
\* while (asyncWorkerRunning) { FD_ZERO(&readSet); ...
Run_While(w) ==
    /\ ~aborted
    /\ worker[w].pc = "P67"
    /\ worker' = [worker EXCEPT
                    ![w].pc = IF asyncWorkerRunning THEN "P71" ELSE "P92",
                    ![w].readSet = <<>>,
                    ![w].i = 0]
    /\ NoFault
    /\ UNCHANGED <<asyncWorkerRunning, asyncWorker, asyncSocketList,
                   listState, ReadCallback, ReadCallbackState, pending, eof,
                   pc, arg, shutdowns, age, calls,
                   Connected, RawSocket>>

\* FD_SET: a handle already in the set is not added again
FD_SET(h, readSet) == IF InList(readSet, h) THEN readSet ELSE Append(readSet, h)

\* lines 71-76 with the iterator reset after every batch, not only at the end
\* of the list: every batch starts at the head
Run_BatchNext_AlwaysReset(w) ==
    /\ ~aborted
    /\ worker[w].pc = "P71"
    /\ LET me == worker[w]
           more == me.it < Len(asyncSocketList)
           s == asyncSocketList[me.it + 1]
           set == IF more THEN FD_SET(RawSocket[s], me.readSet) ELSE me.readSet
           done == ~more \/ me.i + 1 >= FD_SETSIZE
       IN /\ worker' = [worker EXCEPT
                          ![w].it = IF more /\ ~done THEN me.it + 1 ELSE 0,
                          ![w].seen = IF more /\ ~done THEN me.seen \cup {s} ELSE {},
                          ![w].i = IF more THEN me.i + 1 ELSE me.i,
                          ![w].readSet = set,
                          ![w].pc = IF done THEN "P78" ELSE "P71"]
          /\ age' = IF done THEN AgeAfterBatch(set) ELSE age
    /\ ListFault("list_invalid")
    /\ UNCHANGED <<asyncWorkerRunning, asyncWorker, asyncSocketList,
                   listState, ReadCallback, ReadCallbackState, pending, eof,
                   pc, arg, shutdowns, calls,
                   Connected, RawSocket>>

\* lines 71-76 without the test i < FD_SETSIZE: a batch ends only at the end
\* of the list
Run_BatchNext_NoLimit(w) ==
    /\ ~aborted
    /\ worker[w].pc = "P71"
    /\ LET me == worker[w]
           more == me.it < Len(asyncSocketList)
           s == asyncSocketList[me.it + 1]
           set == IF more THEN FD_SET(RawSocket[s], me.readSet) ELSE me.readSet
       IN /\ worker' = [worker EXCEPT
                          ![w].it = IF more THEN me.it + 1 ELSE 0,
                          ![w].seen = IF more THEN me.seen \cup {s} ELSE {},
                          ![w].i = IF more THEN me.i + 1 ELSE me.i,
                          ![w].readSet = set,
                          ![w].pc = IF ~more THEN "P78" ELSE "P71"]
          /\ age' = IF ~more THEN AgeAfterBatch(set) ELSE age
    /\ ListFault("list_invalid")
    /\ UNCHANGED <<asyncWorkerRunning, asyncWorker, asyncSocketList,
                   listState, ReadCallback, ReadCallbackState, pending, eof,
                   pc, arg, shutdowns, calls, Connected, RawSocket>>

\* lines 71-76: one turn of the for loop.  AsyncLinkedList_IterateNext yields
\* the next entry, or NULL at the end of the list; the turn that ends the loop
\* also runs lines 75-76 (the iterator is reset when the last yield was NULL).
Run_BatchNext(w) ==
    /\ ~aborted
    /\ worker[w].pc = "P71"
    /\ LET me == worker[w]
           more == me.it < Len(asyncSocketList)
           s == asyncSocketList[me.it + 1]
           set == IF more THEN FD_SET(RawSocket[s], me.readSet) ELSE me.readSet
           done == ~more \/ me.i + 1 >= FD_SETSIZE
       IN /\ worker' = [worker EXCEPT
                          ![w].it = IF more THEN me.it + 1 ELSE 0,
                          ![w].seen = IF more THEN me.seen \cup {s} ELSE {},
                          ![w].i = IF more THEN me.i + 1 ELSE me.i,
                          ![w].readSet = set,
                          ![w].pc = IF done THEN "P78" ELSE "P71"]
          /\ age' = IF done THEN AgeAfterBatch(set) ELSE age
    /\ ListFault("list_invalid")
    /\ UNCHANGED <<asyncWorkerRunning, asyncWorker, asyncSocketList,
                   listState, ReadCallback, ReadCallbackState, pending, eof,
                   pc, arg, shutdowns, calls,
                   Connected, RawSocket>>

\* what select() leaves in readSet when it succeeds
SelectReadable(readSet) == SelectSeq(readSet, LAMBDA h : Readable(h))

\* select() fails on a set that holds a handle that is not an open socket
SelectCanSucceed(readSet) == \A k \in 1..Len(readSet) : HandleOpen(readSet[k])

\* after select (line 78) or after a full scan for one handle (line 80):
\* the next handle of readSet is looked up from the head of the list, or the
\* cycle ends (sleep, line 89) when no handle is left
AfterHandle(me, readSet, next) ==
    IF next < Len(readSet)
    THEN [me EXCEPT !.readSet = readSet, !.i = next, !.scan = 0,
                    !.socketEntry = 0, !.pc = "P81"]
    ELSE [me EXCEPT !.readSet = <<>>, !.i = 0, !.scan = 0,
                    !.socketEntry = 0, !.selectFailed = FALSE, !.pc = "P67"]

\* line 78: select(0, &readSet, NULL, NULL, &selectTimeout), result ignored.
\* On success readSet holds the readable handles; on failure it is left as built.
Run_Select(w) ==
    /\ ~aborted
    /\ worker[w].pc = "P78"
    /\ \E ok \in BOOLEAN :
         /\ ok => SelectCanSucceed(worker[w].readSet)
         /\ worker' = [worker EXCEPT ![w] =
                         AfterHandle([worker[w] EXCEPT !.selectFailed = ~ok],
                                     IF ok THEN SelectReadable(worker[w].readSet)
                                           ELSE worker[w].readSet,
                                     0)]
    /\ NoFault
    /\ UNCHANGED <<asyncWorkerRunning, asyncWorker, asyncSocketList,
                   listState, ReadCallback, ReadCallbackState, pending, eof,
                   pc, arg, shutdowns, age, calls,
                   Connected, RawSocket>>

\* lines 81-82: one turn of AsyncLinkedList_ForEach for readSet.fd_array[i]
Run_ForEach(w) ==
    /\ ~aborted
    /\ worker[w].pc = "P81"
    /\ LET me == worker[w]
           more == me.scan < Len(asyncSocketList)
           s == asyncSocketList[me.scan + 1]
       IN worker' = [worker EXCEPT ![w] =
            IF more
            THEN [me EXCEPT !.scan = me.scan + 1,
                            !.socketEntry = s,
                            !.selectFailed =
                                me.selectFailed /\ RawSocket[s] # me.readSet[me.i + 1],
                            !.pc = IF RawSocket[s] = me.readSet[me.i + 1]
                                   THEN "P83" ELSE "P81"]
            ELSE AfterHandle(me, me.readSet, me.i + 1)]
    /\ ListFault("list_invalid")
    /\ UNCHANGED <<asyncWorkerRunning, asyncWorker, asyncSocketList,
                   listState, ReadCallback, ReadCallbackState, pending, eof,
                   pc, arg, shutdowns, age, calls,
                   Connected, RawSocket>>

\* line 83: bytesRead = SAL_Socket_Read(socketEntry, asyncSocketBuffer, 1024);
\* the sockets are blocking, so recv returns only once the socket is readable
Run_Read(w) ==
    /\ ~aborted
    /\ worker[w].pc = "P83"
    /\ RecvReturns(worker[w].socketEntry)
    /\ LET s == worker[w].socketEntry
           n == SAL_Socket_Read(s, CALLBACK_BUFFER_SIZE)
       IN /\ worker' = [worker EXCEPT ![w].bytesRead = n, ![w].pc = "P84"]
          /\ pending' = [pending EXCEPT ![s] = pending[s] - n]
    /\ NoFault
    /\ UNCHANGED <<asyncWorkerRunning, asyncWorker, asyncSocketList,
                   listState, ReadCallback, ReadCallbackState, eof, pc, arg,
                   shutdowns, age, calls,
                   Connected, RawSocket>>

\* line 84, first half: the function pointer socketEntry->ReadCallback is loaded
Run_LoadCallback(w) ==
    /\ ~aborted
    /\ worker[w].pc = "P84"
    /\ worker' = [worker EXCEPT ![w].fn = ReadCallback[worker[w].socketEntry],
                                ![w].pc = "P84call"]
    /\ NoFault
    /\ UNCHANGED <<asyncWorkerRunning, asyncWorker, asyncSocketList,
                   listState, ReadCallback, ReadCallbackState, pending, eof,
                   pc, arg, shutdowns, age, calls,
                   Connected, RawSocket>>

\* line 84, second half: socketEntry->ReadCallbackState is loaded and the
\* callback is called, whatever bytesRead is; the worker is then inside the
\* callback with (asyncSocketBuffer, bytesRead, st).  A call through a null
\* pointer ends the process.
Run_Callback(w) ==
    /\ ~aborted
    /\ worker[w].pc = "P84call"
    /\ IF worker[w].fn = NULL
       THEN /\ fault' = "null_call"
            /\ aborted' = TRUE
            /\ UNCHANGED worker
       ELSE /\ worker' = [worker EXCEPT
                            ![w].st = ReadCallbackState[worker[w].socketEntry],
                            ![w].pc = "CB"]
            /\ NoFault
    /\ UNCHANGED <<asyncWorkerRunning, asyncWorker, asyncSocketList, listState,
                   ReadCallback, ReadCallbackState, pending, eof, pc, arg,
                   shutdowns, age, calls,
                   Connected, RawSocket>>

\* a poller that unregisters a connection whose read gave zero bytes
Run_CallbackReturn_DropsOnZero(w) ==
    /\ ~aborted
    /\ worker[w].pc = "CB"
    /\ LET s == worker[w].socketEntry
           drop == worker[w].bytesRead = 0 /\ InList(asyncSocketList, s)
       IN /\ asyncSocketList' = IF drop THEN AsyncLinkedList_Remove(asyncSocketList, s)
                                        ELSE asyncSocketList
          /\ worker' = [(IF drop THEN WorkersAfterRemove(s) ELSE worker) EXCEPT
                          ![w].pc = "P81", ![w].fn = NULL, ![w].st = NULL,
                          ![w].bytesRead = 0]
    /\ NoFault
    /\ UNCHANGED <<asyncWorkerRunning, asyncWorker,
                   listState, ReadCallback, ReadCallbackState, pending, eof,
                   pc, arg, shutdowns, age, calls,
                   Connected, RawSocket>>

\* the callback returns and the ForEach of line 81 goes on
Run_CallbackReturn(w) ==
    /\ ~aborted
    /\ worker[w].pc = "CB"
    /\ worker' = [worker EXCEPT ![w].pc = "P81", ![w].fn = NULL, ![w].st = NULL,
                                ![w].bytesRead = 0]
    /\ NoFault
    /\ UNCHANGED <<asyncWorkerRunning, asyncWorker, asyncSocketList,
                   listState, ReadCallback, ReadCallbackState, pending, eof,
                   pc, arg, shutdowns, age, calls,
                   Connected, RawSocket>>

\* lines 92-94: AsyncLinkedList_EndIterate(selectIterator); return 0
Run_EndIterate(w) ==
    /\ ~aborted
    /\ worker[w].pc = "P92"
    /\ worker' = [worker EXCEPT ![w] = [IdleWorker EXCEPT !.pc = "exited"]]
    /\ ListFault("list_invalid")
    /\ UNCHANGED <<asyncWorkerRunning, asyncWorker, asyncSocketList,
                   listState, ReadCallback, ReadCallbackState, pending, eof,
                   pc, arg, shutdowns, age, calls,
                   Connected, RawSocket>>


\* ------------------------------------------ SAL_Socket_SetReadCallback (445-460)
\* lines 446-448: an absent socket (0), callback or state fails an assertion,
\* which terminates the process; nothing is returned to the caller
SetReadCallback_Assert(t, s, c, st) ==
    /\ ~aborted
    /\ pc[t] = "idle"
    /\ s = 0 \/ c = NULL \/ st = NULL
    /\ fault' = "assert"
    /\ aborted' = TRUE
    /\ UNCHANGED <<asyncWorkerRunning, asyncWorker, asyncSocketList,
                   listState, ReadCallback, ReadCallbackState, pending, eof,
                   pc, arg, worker, shutdowns, age, calls,
                   Connected, RawSocket>>

\* lines 446-450: the assertions pass; if (!asyncWorkerRunning)
SetReadCallback_Enter(t, s, c, st) ==
    /\ ~aborted
    /\ pc[t] = "idle"
    /\ s # 0 /\ c # NULL /\ st # NULL
    /\ arg' = [arg EXCEPT ![t] = [NoArg EXCEPT !.sock = s, !.cb = c, !.st = st]]
    /\ pc' = [pc EXCEPT ![t] = IF asyncWorkerRunning THEN "S455" ELSE "S101"]
    /\ NoFault
    /\ UNCHANGED <<asyncWorkerRunning, asyncWorker, asyncSocketList,
                   listState, ReadCallback, ReadCallbackState, pending, eof,
                   worker, shutdowns, age,
                   Connected, RawSocket>>

\* line 101: AsyncLinkedList_Initialize(&asyncSocketList, Memory_Free).
\* The list becomes empty and live; initialising it under a live worker is
\* recorded, and that worker's iterators start over.
Initialize_List(t) ==
    /\ ~aborted
    /\ pc[t] = "S101"
    /\ asyncSocketList' = <<>>
    /\ listState' = "live"
    /\ worker' = [w \in Workers |->
                    [worker[w] EXCEPT !.it = 0, !.scan = 0, !.seen = {}]]
    /\ fault' = IF \E w \in Workers : Alive(w) THEN "list_reinit" ELSE "none"
    /\ aborted' = FALSE
    /\ age' = ResetAge
    /\ pc' = [pc EXCEPT ![t] = "S102"]
    /\ UNCHANGED <<asyncWorkerRunning, asyncWorker, ReadCallback,
                   ReadCallbackState, pending, eof, arg, shutdowns, calls,
                   Connected, RawSocket>>

\* line 102: asyncWorkerRunning = true
Initialize_SetRunning(t) ==
    /\ ~aborted
    /\ pc[t] = "S102"
    /\ asyncWorkerRunning' = TRUE
    /\ pc' = [pc EXCEPT ![t] = "S103"]
    /\ NoFault
    /\ UNCHANGED <<asyncWorker, asyncSocketList, listState, ReadCallback,
                   ReadCallbackState, pending, eof, arg, worker, shutdowns,
                   age, calls,
                   Connected, RawSocket>>

\* a thread slot that holds no thread
FreeSlot(w) == worker[w].pc \in {"none", "joined"}

\* line 103: asyncWorker = SAL_Thread_Create(SAL_Socket_CallbackWorker_Run, NULL)
Initialize_CreateThread(t) ==
    /\ ~aborted
    /\ pc[t] = "S103"
    /\ \E w \in Workers :
         /\ FreeSlot(w)
         /\ \A v \in Workers : FreeSlot(v) => w <= v
         /\ worker' = [worker EXCEPT ![w] = [IdleWorker EXCEPT !.pc = "P63"]]
         /\ asyncWorker' = w
    /\ pc' = [pc EXCEPT ![t] = "S452"]
    /\ NoFault
    /\ UNCHANGED <<asyncWorkerRunning, asyncSocketList, listState,
                   ReadCallback, ReadCallbackState, pending, eof, arg,
                   shutdowns, age, calls,
                   Connected, RawSocket>>

\* line 452: asyncWorkerRunning = true
SetReadCallback_SetRunning(t) ==
    /\ ~aborted
    /\ pc[t] = "S452"
    /\ asyncWorkerRunning' = TRUE
    /\ pc' = [pc EXCEPT ![t] = "S455"]
    /\ NoFault
    /\ UNCHANGED <<asyncWorker, asyncSocketList, listState, ReadCallback,
                   ReadCallbackState, pending, eof, arg, worker, shutdowns,
                   age, calls,
                   Connected, RawSocket>>

\* line 455 without its test: the socket is appended on every registration
SetReadCallback_Test_AlwaysAppend(t) ==
    /\ ~aborted
    /\ pc[t] = "S455"
    /\ pc' = [pc EXCEPT ![t] = "S456"]
    /\ NoFault
    /\ UNCHANGED <<asyncWorkerRunning, asyncWorker, asyncSocketList,
                   listState, ReadCallback, ReadCallbackState, pending, eof,
                   arg, worker, shutdowns, age, calls,
                   Connected, RawSocket>>

\* line 455: if (!socket->ReadCallback)
SetReadCallback_Test(t) ==
    /\ ~aborted
    /\ pc[t] = "S455"
    /\ pc' = [pc EXCEPT ![t] = IF ReadCallback[arg[t].sock] = NULL THEN "S456" ELSE "S458"]
    /\ NoFault
    /\ UNCHANGED <<asyncWorkerRunning, asyncWorker, asyncSocketList,
                   listState, ReadCallback, ReadCallbackState, pending, eof,
                   arg, worker, shutdowns, age, calls,
                   Connected, RawSocket>>

\* line 456: AsyncLinkedList_Append(&asyncSocketList, socket)
SetReadCallback_Append(t) ==
    /\ ~aborted
    /\ pc[t] = "S456"
    /\ asyncSocketList' = AsyncLinkedList_Append(asyncSocketList, arg[t].sock)
    /\ ListFault("list_invalid")
    /\ age' = ResetAge
    /\ pc' = [pc EXCEPT ![t] = "S458"]
    /\ UNCHANGED <<asyncWorkerRunning, asyncWorker, listState, ReadCallback,
                   ReadCallbackState, pending, eof, arg, worker, shutdowns,
                   calls,
                   Connected, RawSocket>>

\* line 458: socket->ReadCallback = callback
SetReadCallback_StoreCallback(t) ==
    /\ ~aborted
    /\ pc[t] = "S458"
    /\ ReadCallback' = [ReadCallback EXCEPT ![arg[t].sock] = arg[t].cb]
    /\ pc' = [pc EXCEPT ![t] = "S459"]
    /\ NoFault
    /\ UNCHANGED <<asyncWorkerRunning, asyncWorker, asyncSocketList,
                   listState, ReadCallbackState, pending, eof, arg, worker,
                   shutdowns, age, calls,
                   Connected, RawSocket>>

\* line 459: socket->ReadCallbackState = state; the call returns
SetReadCallback_StoreState(t) ==
    /\ ~aborted
    /\ pc[t] = "S459"
    /\ ReadCallbackState' = [ReadCallbackState EXCEPT ![arg[t].sock] = arg[t].st]
    /\ arg' = [arg EXCEPT ![t] = NoArg]
    /\ pc' = [pc EXCEPT ![t] = "idle"]
    /\ NoFault
    /\ UNCHANGED <<asyncWorkerRunning, asyncWorker, asyncSocketList,
                   listState, ReadCallback, pending, eof, worker,
                   shutdowns, age, calls,
                   Connected, RawSocket>>

\* -------------------------------------- SAL_Socket_UnsetSocketCallback (467-476)
\* lines 468-470: if (socket->ReadCallback); the call returns when it is null
UnsetSocketCallback_Enter(t, s) ==
    /\ ~aborted
    /\ pc[t] = "idle"
    /\ arg' = [arg EXCEPT ![t] = IF ReadCallback[s] # NULL
                                  THEN [NoArg EXCEPT !.sock = s] ELSE NoArg]
    /\ pc' = [pc EXCEPT ![t] = IF ReadCallback[s] # NULL THEN "U471" ELSE "idle"]
    /\ NoFault
    /\ UNCHANGED <<asyncWorkerRunning, asyncWorker, asyncSocketList,
                   listState, ReadCallback, ReadCallbackState, pending, eof,
                   worker, shutdowns, age,
                   Connected, RawSocket>>

\* line 471: socket->ReadCallback = NULL
UnsetSocketCallback_ClearCallback(t) ==
    /\ ~aborted
    /\ pc[t] = "U471"
    /\ ReadCallback' = [ReadCallback EXCEPT ![arg[t].sock] = NULL]
    /\ pc' = [pc EXCEPT ![t] = "U472"]
    /\ NoFault
    /\ UNCHANGED <<asyncWorkerRunning, asyncWorker, asyncSocketList,
                   listState, ReadCallbackState, pending, eof, arg, worker,
                   shutdowns, age, calls,
                   Connected, RawSocket>>

\* line 472: socket->ReadCallbackState = NULL
UnsetSocketCallback_ClearState(t) ==
    /\ ~aborted
    /\ pc[t] = "U472"
    /\ ReadCallbackState' = [ReadCallbackState EXCEPT ![arg[t].sock] = NULL]
    /\ pc' = [pc EXCEPT ![t] = "U474"]
    /\ NoFault
    /\ UNCHANGED <<asyncWorkerRunning, asyncWorker, asyncSocketList,
                   listState, ReadCallback, pending, eof, arg, worker,
                   shutdowns, age, calls,
                   Connected, RawSocket>>

\* line 474 left out: the fields are cleared but the entry stays in the list
UnsetSocketCallback_Remove_KeepsEntry(t) ==
    /\ ~aborted
    /\ pc[t] = "U474"
    /\ arg' = [arg EXCEPT ![t] = NoArg]
    /\ pc' = [pc EXCEPT ![t] = "idle"]
    /\ NoFault
    /\ UNCHANGED <<asyncWorkerRunning, asyncWorker, asyncSocketList,
                   listState, ReadCallback, ReadCallbackState, pending, eof,
                   worker, shutdowns, age, calls,
                   Connected, RawSocket>>

\* line 474: AsyncLinkedList_Remove(&asyncSocketList, socket); the call returns
\* to the application, or to line 368 when SAL_Socket_Close made it
UnsetSocketCallback_Remove(t) ==
    /\ ~aborted
    /\ pc[t] = "U474"
    /\ asyncSocketList' = AsyncLinkedList_Remove(asyncSocketList, arg[t].sock)
    /\ worker' = WorkersAfterRemove(arg[t].sock)
    /\ ListFault("list_invalid")
    /\ age' = ResetAge
    /\ arg' = [arg EXCEPT ![t] = [NoArg EXCEPT !.sock = IF arg[t].ret = "idle"
                                                        THEN 0 ELSE arg[t].sock]]
    /\ pc' = [pc EXCEPT ![t] = arg[t].ret]
    /\ UNCHANGED <<asyncWorkerRunning, asyncWorker, listState, ReadCallback,
                   ReadCallbackState, pending, eof, shutdowns, calls,
                   Connected, RawSocket>>

\* --------------------------------------------- SAL_Socket_Close (364-378)
\* lines 365-368 without the call of line 367
Close_Enter_NoUnset(t, s) ==
    /\ ~aborted
    /\ pc[t] = "idle"
    /\ s # 0
    /\ arg' = [arg EXCEPT ![t] = [NoArg EXCEPT !.sock = s]]
    /\ pc' = [pc EXCEPT ![t] = "X368"]
    /\ NoFault
    /\ UNCHANGED <<asyncWorkerRunning, asyncWorker, asyncSocketList,
                   listState, ReadCallback, ReadCallbackState, pending, eof,
                   worker, shutdowns, age, calls, Connected, RawSocket>>

\* lines 365-367 and 468-470: the assertion passes, SAL_Socket_UnsetSocketCallback
\* is called and tests socket->ReadCallback
Close_Enter(t, s) ==
    /\ ~aborted
    /\ pc[t] = "idle"
    /\ s # 0
    /\ arg' = [arg EXCEPT ![t] = IF ReadCallback[s] # NULL
                                  THEN [NoArg EXCEPT !.sock = s, !.ret = "X368"]
                                  ELSE [NoArg EXCEPT !.sock = s]]
    /\ pc' = [pc EXCEPT ![t] = IF ReadCallback[s] # NULL THEN "U471" ELSE "X368"]
    /\ NoFault
    /\ UNCHANGED <<asyncWorkerRunning, asyncWorker, asyncSocketList,
                   listState, ReadCallback, ReadCallbackState, pending, eof,
                   worker, shutdowns, age, calls, Connected, RawSocket>>

\* line 368: socket->Connected = false
Close_ClearConnected(t) ==
    /\ ~aborted
    /\ pc[t] = "X368"
    /\ Connected' = [Connected EXCEPT ![arg[t].sock] = FALSE]
    /\ pc' = [pc EXCEPT ![t] = "X370"]
    /\ NoFault
    /\ UNCHANGED <<asyncWorkerRunning, asyncWorker, asyncSocketList,
                   listState, ReadCallback, ReadCallbackState, pending, eof,
                   arg, worker, shutdowns, age, calls, RawSocket>>

\* lines 370-372: shutdown and closesocket release the handle, and
\* socket->RawSocket = INVALID_SOCKET; the call returns
Close_Release(t) ==
    /\ ~aborted
    /\ pc[t] = "X370"
    /\ RawSocket' = [RawSocket EXCEPT ![arg[t].sock] = INVALID_SOCKET]
    /\ arg' = [arg EXCEPT ![t] = NoArg]
    /\ pc' = [pc EXCEPT ![t] = "idle"]
    /\ NoFault
    /\ UNCHANGED <<asyncWorkerRunning, asyncWorker, asyncSocketList,
                   listState, ReadCallback, ReadCallbackState, pending, eof,
                   worker, shutdowns, age, calls, Connected>>

\* ------------------- SAL_Socket_ClearCallbacks (481-483), ..._Shutdown (106-110)
\* line 107: asyncWorkerRunning = false
Shutdown_ClearRunning(t) ==
    /\ ~aborted
    /\ pc[t] = "idle"
    /\ shutdowns' = Min(shutdowns + 1, ShutdownsCounted)
    /\ asyncWorkerRunning' = FALSE
    /\ arg' = [arg EXCEPT ![t] = [NoArg EXCEPT !.wasRunning = asyncWorkerRunning]]
    /\ pc' = [pc EXCEPT ![t] = "D108"]
    /\ NoFault
    /\ UNCHANGED <<asyncWorker, asyncSocketList, listState, ReadCallback,
                   ReadCallbackState, pending, eof, worker, age,
                   Connected, RawSocket>>

\* line 108: the argument of SAL_Thread_Join(asyncWorker) is read
Shutdown_LoadHandle(t) ==
    /\ ~aborted
    /\ pc[t] = "D108"
    /\ arg' = [arg EXCEPT ![t].h = asyncWorker]
    /\ pc' = [pc EXCEPT ![t] = "D108join"]
    /\ NoFault
    /\ UNCHANGED <<asyncWorkerRunning, asyncWorker, asyncSocketList,
                   listState, ReadCallback, ReadCallbackState, pending, eof,
                   worker, shutdowns, age, calls,
                   Connected, RawSocket>>

\* a handle that names a thread which can be joined
Joinable(h) == h # 0 /\ ~FreeSlot(h)

\* line 108: SAL_Thread_Join returns once the thread has exited.  Joining a
\* handle that was never created or was already joined is an invalid
\* operation: it is recorded, and the process either survives it or dies.
Shutdown_Join(t) ==
    /\ ~aborted
    /\ pc[t] = "D108join"
    /\ IF Joinable(arg[t].h)
       THEN /\ worker[arg[t].h].pc = "exited"
            /\ worker' = [worker EXCEPT ![arg[t].h].pc = "joined"]
            /\ NoFault
       ELSE /\ fault' = "join_invalid"
            /\ aborted' \in BOOLEAN
            /\ UNCHANGED worker
    /\ pc' = [pc EXCEPT ![t] = "D109"]
    /\ UNCHANGED <<asyncWorkerRunning, asyncWorker, asyncSocketList,
                   listState, ReadCallback, ReadCallbackState, pending, eof,
                   arg, shutdowns, age, calls,
                   Connected, RawSocket>>

\* line 109: AsyncLinkedList_Uninitialize(&asyncSocketList); the call returns.
\* Releasing storage that is not live is an invalid operation.
Shutdown_Uninitialize(t) ==
    /\ ~aborted
    /\ pc[t] = "D109"
    /\ asyncSocketList' = <<>>
    /\ listState' = "released"
    /\ IF listState = "live"
       THEN NoFault
       ELSE /\ fault' = "release_invalid"
            /\ aborted' \in BOOLEAN
    /\ age' = ResetAge
    /\ arg' = [arg EXCEPT ![t] = NoArg]
    /\ pc' = [pc EXCEPT ![t] = "idle"]
    /\ UNCHANGED <<asyncWorkerRunning, asyncWorker, ReadCallback,
                   ReadCallbackState, pending, eof, worker, shutdowns, calls,
                   Connected, RawSocket>>

\* -------------------------------------------------------------- the peers
\* the peer of socket s sends n bytes
PeerSend(s, n) ==
    /\ ~aborted
    /\ ~eof[s]
    /\ n > 0
    /\ pending[s] + n <= MaxPending
    /\ pending' = [pending EXCEPT ![s] = pending[s] + n]
    /\ NoFault
    /\ UNCHANGED <<asyncWorkerRunning, asyncWorker, asyncSocketList,
                   listState, ReadCallback, ReadCallbackState, eof, pc, arg,
                   worker, shutdowns, age, calls,
                   Connected, RawSocket>>

\* the peer of socket s closes the connection
PeerClose(s) ==
    /\ ~aborted
    /\ ~eof[s]
    /\ eof' = [eof EXCEPT ![s] = TRUE]
    /\ NoFault
    /\ UNCHANGED <<asyncWorkerRunning, asyncWorker, asyncSocketList,
                   listState, ReadCallback, ReadCallbackState, pending, pc,
                   arg, worker, shutdowns, age, calls,
                   Connected, RawSocket>>

\* ------------------------------------------------------- specifications
WorkerStep(w) ==
    \/ Run_BeginIterate(w)
    \/ Run_While(w)
    \/ Run_BatchNext(w)
    \/ Run_Select(w)
    \/ Run_ForEach(w)
    \/ Run_Read(w)
    \/ Run_LoadCallback(w)
    \/ Run_Callback(w)
    \/ Run_CallbackReturn(w)
    \/ Run_EndIterate(w)

\* a call begins: it is counted, and refused once the bound is reached, in
\* the specifications that bound the number of calls (limit > 0)
CountCall(limit) ==
    IF limit = 0
    THEN UNCHANGED calls
    ELSE /\ calls < limit
         /\ calls' = calls + 1

RegisterStep(t, socks, args, limit) ==
    \/ \E s \in socks, a \in args :
          SetReadCallback_Enter(t, s, a[1], a[2]) /\ CountCall(limit)
    \/ Initialize_List(t)
    \/ Initialize_SetRunning(t)
    \/ Initialize_CreateThread(t)
    \/ SetReadCallback_SetRunning(t)
    \/ SetReadCallback_Test(t)
    \/ SetReadCallback_Append(t)
    \/ SetReadCallback_StoreCallback(t)
    \/ SetReadCallback_StoreState(t)

RegisterInvalidStep(t, socks) ==
    \E s \in socks \cup {0}, a \in ValidArgs \cup InvalidArgs :
        SetReadCallback_Assert(t, s, a[1], a[2])

UnregisterStep(t, socks, limit) ==
    \/ \E s \in socks : UnsetSocketCallback_Enter(t, s) /\ CountCall(limit)
    \/ UnsetSocketCallback_ClearCallback(t)
    \/ UnsetSocketCallback_ClearState(t)
    \/ UnsetSocketCallback_Remove(t)

ShutdownStep(t, limit) ==
    \/ Shutdown_ClearRunning(t) /\ CountCall(limit)
    \/ Shutdown_LoadHandle(t)
    \/ Shutdown_Join(t)
    \/ Shutdown_Uninitialize(t)

CloseStep(t, socks) ==
    \/ \E s \in socks : Close_Enter(t, s)
    \/ Close_ClearConnected(t)
    \/ Close_Release(t)

PeerStep(socks) ==
    \/ \E s \in socks, n \in 1..MaxPending : PeerSend(s, n)
    \/ \E s \in socks : PeerClose(s)

\* One application thread calling the three operations (and registering with
\* absent arguments) on two sockets, the workers and the peers.
Next ==
    \/ \E w \in Workers : WorkerStep(w)
    \/ RegisterStep(1, 1..2, ValidArgs, 0)
    \/ RegisterInvalidStep(1, 1..2)
    \/ UnregisterStep(1, 1..2, 0)
    \/ ShutdownStep(1, 0)
    \/ PeerStep(1..2)

Spec == Init /\ [][Next]_vars

\* One application thread calling the three operations on every socket, more
\* sockets than a batch holds, with one callback; the peer of socket 1 sends.
NextBatch ==
    \/ \E w \in Workers : WorkerStep(w)
    \/ RegisterStep(1, Sockets, {<<"C1", "S1">>}, 0)
    \/ UnregisterStep(1, Sockets, 0)
    \/ ShutdownStep(1, 0)
    \/ \E n \in 1..MaxPending : PeerSend(1, n)

SpecBatch == Init /\ [][NextBatch]_vars

\* Two application threads on socket 1, at most MaxCalls calls in all: each
\* registers its own callback and state and unregisters, thread 1 also shuts
\* down; the peer sends single bytes.
OwnArgs(t) == IF t = 1 THEN {<<"C1", "S1">>} ELSE {<<"C2", "S2">>}

NextMT ==
    \/ \E w \in Workers : WorkerStep(w)
    \/ \E t \in 1..2 : RegisterStep(t, {1}, OwnArgs(t), MaxCalls)
    \/ \E t \in 1..2 : UnregisterStep(t, {1}, MaxCalls)
    \/ ShutdownStep(1, MaxCalls)
    \/ PeerSend(1, 1)

SpecMT == Init /\ [][NextMT]_vars

\* One application thread and socket 1, with the scheduler's guarantee that a
\* thread that can take a step eventually takes one: a worker thread in its
\* loop, an application thread inside a call (it is free not to begin one).
CallStep(t) ==
    /\ pc[t] # "idle"
    /\ \/ RegisterStep(t, {1}, ValidArgs, 0)
       \/ UnregisterStep(t, {1}, 0)
       \/ ShutdownStep(t, 0)

NextLive ==
    \/ \E w \in Workers : WorkerStep(w)
    \/ RegisterStep(1, {1}, ValidArgs, 0)
    \/ UnregisterStep(1, {1}, 0)
    \/ ShutdownStep(1, 0)
    \/ PeerStep({1})

SpecLive ==
    /\ Init
    /\ [][NextLive]_vars
    /\ WF_vars(\E w \in Workers : WorkerStep(w))
    /\ WF_vars(CallStep(1))

\* One application thread that registers, unregisters and closes sockets 1 and
\* 2 and shuts down; a socket it has closed is not passed to any later call.
OpenSockets == {s \in 1..2 : Connected[s]}

NextClose ==
    \/ \E w \in Workers : WorkerStep(w)
    \/ RegisterStep(1, OpenSockets, {<<"C1", "S1">>}, 0)
    \/ UnregisterStep(1, OpenSockets, 0)
    \/ CloseStep(1, OpenSockets)
    \/ ShutdownStep(1, 0)
    \/ \E s \in 1..2 : PeerSend(s, 1)

SpecClose == Init /\ [][NextClose]_vars

\* ================================================================= claims
AllReturned == \A t \in Threads : pc[t] = "idle"

Registered(s) == ReadCallback[s] # NULL

\* C1: after any sequence of SAL_Socket_SetReadCallback and
\* SAL_Socket_UnsetSocketCallback calls (no shutdown), once each call has
\* returned, asyncSocketList holds exactly the sockets whose ReadCallback is
\* non-null, each exactly once.
C1_RegistrationSetMatchesCallbacks ==
    (AllReturned /\ shutdowns = 0) =>
        \A s \in Sockets :
            Occurrences(asyncSocketList, s) = IF Registered(s) THEN 1 ELSE 0

\* two sockets registered, socket 1 after socket 2 and with the second callback
C1_Witness ==
    /\ AllReturned
    /\ shutdowns = 0
    /\ asyncSocketList = <<2, 1>>
    /\ ReadCallback[1] = "C2"
    /\ ReadCallback[2] = "C1"

\* a worker has picked socket s in the dispatch loop (lines 82-84): a read or a
\* callback for s is under way
InFlight(s) ==
    \E w \in Workers :
        /\ worker[w].pc \in {"P83", "P84", "P84call", "CB"}
        /\ worker[w].socketEntry = s

\* a worker is inside the callback of socket s
Invoking(s) == \E w \in Workers : worker[w].pc = "CB" /\ worker[w].socketEntry = s

\* s has no callback and no call on s is under way
Unregistered(s) == ReadCallback[s] = NULL /\ \A t \in Threads : arg[t].sock # s

\* C3: once SAL_Socket_UnsetSocketCallback(A) has returned with no delivery to A
\* in flight, no worker picks A for a read or a callback as long as A is not
\* registered again, whatever data arrives; and the removal of A leaves every
\* other socket's entries in the list.
C3_NoDeliveryAfterUnregister ==
    [][/\ \A s \in Sockets :
            (Unregistered(s) /\ ~InFlight(s)) => ~InFlight(s)'
       /\ \A t \in Threads :
            (pc[t] = "U474" /\ pc'[t] = "idle") =>
                \A b \in Sockets \ {arg[t].sock} :
                    Occurrences(asyncSocketList', b) = Occurrences(asyncSocketList, b)
      ]_vars

\* socket 1 is unregistered with data waiting while socket 2's callback runs
C3_Witness ==
    /\ Unregistered(1)
    /\ pending[1] > 0
    /\ shutdowns = 0
    /\ Invoking(2)
    /\ asyncSocketList = <<2>>

CeilDiv(a, b) == (a + b - 1) \div b

\* C4: while asyncSocketList holds more sockets than FD_SETSIZE and is not
\* mutated, no socket of the list is left out of more than ceil(N/FD_SETSIZE)
\* batches in a row (age counts the batches built without it since the last
\* mutation), whatever the iterator's position was.
C4_EverySocketBatched ==
    Len(asyncSocketList) > FD_SETSIZE =>
        \A s \in Sockets :
            InList(asyncSocketList, s) =>
                age[s] <= CeilDiv(Len(asyncSocketList), FD_SETSIZE)

\* more sockets than a batch holds, and one has missed that many batches
C4_Witness ==
    /\ Len(asyncSocketList) > FD_SETSIZE
    /\ \E s \in Sockets :
          /\ InList(asyncSocketList, s)
          /\ age[s] = CeilDiv(Len(asyncSocketList), FD_SETSIZE)

\* C5 (as claimed): a callback is invoked only with a non-zero byte count.
C5_CallbackOnlyForData ==
    \A w \in Workers : worker[w].pc = "CB" => worker[w].bytesRead > 0

\* C7 (as claimed): no SAL_Socket_ClearCallbacks joins a thread that was never
\* created or was already joined, or releases the list's storage when it is
\* not live.
C7_ShutdownIdempotent == fault \notin {"join_invalid", "release_invalid"}

\* C8 (as claimed): a SAL_Socket_SetReadCallback that returns after a shutdown
\* leaves a live list that holds its socket, and a worker running.
C8_RestartRegisters ==
    [][\A t \in Threads :
          (pc[t] = "S459" /\ pc'[t] = "idle" /\ shutdowns > 0) =>
              /\ listState' = "live"
              /\ InList(asyncSocketList', arg[t].sock)
              /\ \E w \in Workers : Alive(w)'
      ]_vars

\* C10 (as claimed): a registration with an absent argument is rejected and
\* returns to its caller: the process goes on.
C10_InvalidArgumentReported == fault = "assert" => ~aborted

\* C9 (as claimed): at most one worker is alive, and the list is never
\* initialised while a worker is alive.
C9_OneWorkerOneList ==
    /\ Cardinality({w \in Workers : Alive(w)}) <= 1
    /\ fault # "list_reinit"

\* C6 (as claimed): when a SAL_Socket_ClearCallbacks that was called with
\* asyncWorkerRunning set returns, no worker is alive.
C6_ShutdownStopsWorker ==
    [][\A t \in Threads :
          (pc[t] = "D109" /\ pc'[t] = "idle" /\ arg[t].wasRunning) =>
              \A w \in Workers : ~Alive(w)'
      ]_vars

\* C2 (as claimed): a socket registered with (C, S) whose peer has made n
\* bytes available (n within the buffer) gets a callback C(buffer, n, S), unless
\* it is unregistered or re-registered, the worker is stopped, or more data
\* arrives first.
C2_DataIsDelivered ==
    \A n \in 1..Min(MaxPending, CALLBACK_BUFFER_SIZE), a \in ValidArgs :
        (/\ AllReturned
         /\ asyncWorkerRunning
         /\ ReadCallback[1] = a[1]
         /\ ReadCallbackState[1] = a[2]
         /\ pending[1] = n)
        ~> (\/ \E w \in Workers :
                  /\ worker[w].pc = "CB"
                  /\ worker[w].socketEntry = 1
                  /\ worker[w].fn = a[1]
                  /\ worker[w].st = a[2]
                  /\ worker[w].bytesRead = n
            \/ ReadCallback[1] # a[1]
            \/ ~asyncWorkerRunning
            \/ pending[1] > n)

\* C11: when SAL_Socket_Close returns, its socket is not in asyncSocketList,
\* its ReadCallback and ReadCallbackState are null and Connected is false; the
\* socket is out of the list before its handle is released; and a socket whose
\* handle was released is in no later state in the list or with a callback.
C11_CloseUnregisters ==
    [][/\ \A t \in Threads :
            (pc[t] = "X370" /\ pc'[t] = "idle") =>
                /\ ~InList(asyncSocketList', arg[t].sock)
                /\ ReadCallback'[arg[t].sock] = NULL
                /\ ReadCallbackState'[arg[t].sock] = NULL
                /\ ~Connected'[arg[t].sock]
       /\ \A s \in Sockets :
            /\ RawSocket'[s] # RawSocket[s] => ~InList(asyncSocketList, s)
            /\ RawSocket'[s] = INVALID_SOCKET =>
                  ~InList(asyncSocketList', s) /\ ReadCallback'[s] = NULL
      ]_vars

\* socket 1 was registered (its last delivery is still running) and its handle
\* is about to be released, socket 2 stays registered
C11_Witness ==
    /\ pc[1] = "X370"
    /\ arg[1].sock = 1
    /\ Invoking(1)
    /\ InList(asyncSocketList, 2)
    /\ ~InList(asyncSocketList, 1)

\* C12 (as claimed): in a cycle whose select returned an error the worker
\* picks no socket for a read or a callback.
C12_FailedSelectReadsNothing ==
    [][\A w \in Workers : worker[w].selectFailed => worker'[w].pc # "P83"]_vars

\* C13 (as claimed): the worker never loads a null ReadCallback for the entry
\* it dispatches, and never calls through a null pointer.
C13_NeverNullCallback ==
    /\ fault # "null_call"
    /\ \A w \in Workers : worker[w].pc = "P84call" => worker[w].fn # NULL

\* C14: whatever the application removes and wherever selectIterator stands,
\* every entry of asyncSocketList that lies behind the iterator was yielded in
\* the current pass (so a pass that reaches the end has visited every entry
\* that stayed registered), and the entry the iterator yields next is the one
\* that followed the removed one.
C14_RemovalSkipsNothing ==
    \A w \in Workers :
        Alive(w) =>
            \A k \in 1..Min(worker[w].it, Len(asyncSocketList)) :
                asyncSocketList[k] \in worker[w].seen

\* socket 2 was the last entry selectIterator had yielded (it is still in the
\* batch) and has been removed: the iterator stands between sockets 1 and 3
C14_Witness ==
    /\ AllReturned
    /\ asyncSocketList = <<1, 3>>
    /\ \E w \in Workers :
          /\ worker[w].pc = "P78"
          /\ worker[w].readSet = <<1, 2>>
          /\ worker[w].it = 1
          /\ worker[w].seen = {1}

\* a turn of the for loop of lines 71-76 by worker w
BatchStep(w) ==
    /\ worker[w].pc = "P71"
    /\ worker'[w].i # worker[w].i \/ worker'[w].pc = "P78"

\* C15: a batch never holds more than FD_SETSIZE handles nor a handle twice.
\* A turn of the batch loop takes the entry right after the iterator and
\* moves the iterator behind it, also when that entry fills the batch (so the
\* next batch starts at the entry after the last one taken); a turn that
\* finds the end of the list ends the batch and resets the iterator (so the
\* next batch starts at the first entry).
C15_BatchBoundedAndResumed ==
    [][\A w \in Workers :
          LET me == worker[w]
              new == worker'[w]
          IN /\ Len(new.readSet) <= FD_SETSIZE
             /\ \A j, k \in 1..Len(new.readSet) :
                   j # k => new.readSet[j] # new.readSet[k]
             /\ BatchStep(w) =>
                   IF me.it < Len(asyncSocketList)
                   THEN /\ new.it = me.it + 1
                        /\ new.readSet =
                              FD_SET(RawSocket[asyncSocketList[me.it + 1]], me.readSet)
                        /\ (new.pc = "P78") <=> (new.i = FD_SETSIZE)
                   ELSE /\ new.it = 0
                        /\ new.pc = "P78"
                        /\ new.readSet = me.readSet
      ]_vars

\* the batch after {1, 2} started at socket 3, reached the end of the list and
\* the iterator was reset
C15_Witness ==
    /\ asyncSocketList = <<1, 2, 3>>
    /\ \E w \in Workers :
          /\ worker[w].pc = "P78"
          /\ worker[w].readSet = <<3>>
          /\ worker[w].it = 0

\* the workers that are inside a callback
InCallback == {w \in Workers : worker[w].pc = "CB"}

\* C16 (the part on overlap): no two callbacks, of the same or of different
\* connections, run at the same time: at most one worker thread is inside a
\* callback in any state
C16_CallbacksNeverOverlap ==
    Cardinality(InCallback) <= 1

C18_CallbackAndStateTogether ==
    \A w \in Workers :
        worker[w].pc = "CB" => <<worker[w].fn, worker[w].st>> \in ValidArgs

\* C19: the storage of asyncSocketList is released only after the running flag
\* was cleared and every worker has left its loop, ended its iteration and
\* been joined; and once the storage is released, no step of a worker or of
\* an application call reads or modifies the list before it is initialised
\* again
C19_ShutdownOrder ==
    [][ /\ (listState = "live" /\ listState' = "released") =>
              /\ ~asyncWorkerRunning
              /\ \A w \in Workers : ~Alive(w) /\ worker[w].pc # "exited"
        /\ listState = "released" => fault' # "list_invalid"
      ]_vars

\* C20: registration is safe under concurrent calls on the same socket: the
\* append of a SAL_Socket_SetReadCallback (line 456) leaves exactly one entry
\* for its socket, also when another thread registers the same socket at the
\* same time; and when the racing calls (no shutdown among them) have all
\* returned, a socket is in the list with a non-null callback or absent from
\* it with a null callback
C20_ConcurrentRegistrationSafe ==
    [][ /\ \A t \in Threads :
             (pc[t] = "S456" /\ pc'[t] = "S458") =>
                 Occurrences(asyncSocketList', arg[t].sock) = 1
        /\ (AllReturned' /\ shutdowns' = 0) =>
              \A s \in Sockets :
                  InList(asyncSocketList', s) <=> ReadCallback'[s] # NULL
      ]_vars

====
